---------------------------- MODULE Spec2Model ----------------------------
(***************************************************************************)
(* Order/corridor selection ("waves") as a CSP: the three global           *)
(* feasibility checks, the exhaustive backtracking generator all_solutions *)
(* and the ranking / sensitivity stages of main (src/main.py).             *)
(*                                                                         *)
(* A Python dict is a function with a finite domain; d.get(k, 0) is Get.   *)
(* A variable name f"o{i}" / f"c{j}" is the pair <<"o", i>> / <<"c", j>>.  *)
(* The objective total / num_corr is kept as the exact fraction            *)
(* <<numerator, denominator>> and compared by cross-multiplication.        *)
(***************************************************************************)
EXTENDS Integers, Sequences, FiniteSets, TLC

VARIABLES
    pedidos,        \* module-level dict of orders: id -> (item -> quantity)
    corredores,     \* module-level dict of corridors: id -> (item -> supply)
    LB, UB,         \* module-level band bounds
    pc,             \* position in main: "main" | "sens" | "done"
    csp,            \* the PedidosCSP instance the running generator searches
    assignment,     \* the working assignment dict shared by all recursion levels
    stack,          \* suspended all_solutions invocations: their var and loop index
    status,         \* "call": an invocation was just entered; "ret": one just returned
    out,            \* what list(...) has collected from the generator so far
    tested,         \* history: the states handed to goal_test by the running search
    last_check,     \* history: the last call of check_global_constraints and its result
    solucao_list,   \* main's solucao_list
    resultados,     \* main's resultados: tuples <<sol, total, num_corr, obj>>
    best,           \* main's best tuple, None before it is selected
    k,              \* index of the (lb, ub) pair of the sensitivity loop
    report,         \* best_obj of every finished sensitivity iteration
    msg,            \* the no-solution message, once printed
    zero_guard      \* history: calls of calcular_valor_objetivo with num_corr <= 0

vars == <<pedidos, corredores, LB, UB, pc, csp, assignment, stack, status, out,
          tested, last_check, solucao_list, resultados, best, k, report, msg,
          zero_guard>>

None == <<>>

\* The number of orders and of corridors of the small instances.
NumPedidos == 2

NumCorredores == 2

-----------------------------------------------------------------------------
(* Python helpers *)

Get(d, key, default) == IF key \in DOMAIN d THEN d[key] ELSE default

RECURSIVE SumValues(_)
SumValues(d) ==
    IF DOMAIN d = {} THEN 0
    ELSE LET x == CHOOSE y \in DOMAIN d : TRUE
         IN  d[x] + SumValues([y \in DOMAIN d \ {x} |-> d[y]])

first(seq) == IF seq = <<>> THEN None ELSE Head(seq)

-----------------------------------------------------------------------------
(* Pre-processing *)

Dominio == <<0, 1>>

criar_variaveis(p, c) ==
    [i \in 1..(Cardinality(DOMAIN p) + Cardinality(DOMAIN c)) |->
        IF i <= Cardinality(DOMAIN p) THEN <<"o", i - 1>>
        ELSE <<"c", i - 1 - Cardinality(DOMAIN p)>>]

criar_dominios(p, c) ==
    [v \in {criar_variaveis(p, c)[i] : i \in DOMAIN criar_variaveis(p, c)} |-> Dominio]

criar_neighbors(variaveis) ==
    [v \in {variaveis[i] : i \in DOMAIN variaveis} |->
        SelectSeq(variaveis, LAMBDA w : w # v)]

-----------------------------------------------------------------------------
(* The three global constraints and their combinator *)

\* Variant: the upper bound taken as exclusive.
verifica_tamanho_wave_ub_exclusivo(a, p, lb, ub) ==
    LET total_unidades ==
            SumValues([o \in {o \in DOMAIN p : Get(a, <<"o", o>>, 0) = 1} |->
                          SumValues(p[o])])
    IN  <<lb <= total_unidades /\ total_unidades < ub, total_unidades>>

\* Variant: the lower bound not checked.
verifica_tamanho_wave_sem_lb(a, p, lb, ub) ==
    LET total_unidades ==
            SumValues([o \in {o \in DOMAIN p : Get(a, <<"o", o>>, 0) = 1} |->
                          SumValues(p[o])])
    IN  <<total_unidades <= ub, total_unidades>>

verifica_tamanho_wave(a, p, lb, ub) ==
    LET total_unidades ==
            SumValues([o \in {o \in DOMAIN p : Get(a, <<"o", o>>, 0) = 1} |->
                          SumValues(p[o])])
    IN  <<lb <= total_unidades /\ total_unidades <= ub, total_unidades>>

\* Variant: demand and supply compared in total, not item by item.
verifica_capacidade_agregada(a, p, c) ==
    LET demanda ==
            SumValues([o \in {o \in DOMAIN p : Get(a, <<"o", o>>, 0) = 1} |->
                          SumValues(p[o])])
        oferta ==
            SumValues([j \in {j \in DOMAIN c : Get(a, <<"c", j>>, 0) = 1} |->
                          SumValues(c[j])])
    IN  ~ (demanda > oferta)

\* Variant: an item fails as soon as its demand reaches its supply.
verifica_capacidade_estrita(a, p, c) ==
    LET itens == UNION {DOMAIN p[o] : o \in DOMAIN p}
        demanda(item) ==
            SumValues([o \in {o \in DOMAIN p : Get(a, <<"o", o>>, 0) = 1} |->
                          Get(p[o], item, 0)])
        oferta(item) ==
            SumValues([j \in {j \in DOMAIN c : Get(a, <<"c", j>>, 0) = 1} |->
                          Get(c[j], item, 0)])
    IN  ~ \E item \in itens : demanda(item) >= oferta(item)

verifica_capacidade(a, p, c) ==
    LET itens == UNION {DOMAIN p[o] : o \in DOMAIN p}
        demanda(item) ==
            SumValues([o \in {o \in DOMAIN p : Get(a, <<"o", o>>, 0) = 1} |->
                          Get(p[o], item, 0)])
        oferta(item) ==
            SumValues([j \in {j \in DOMAIN c : Get(a, <<"c", j>>, 0) = 1} |->
                          Get(c[j], item, 0)])
    IN  ~ \E item \in itens : demanda(item) > oferta(item)

\* Variant: the count returned without the test that it is positive.
verifica_corridor_selecionado_sem_teste(a, c) ==
    LET num_corr == SumValues([j \in DOMAIN c |-> Get(a, <<"c", j>>, 0)])
    IN  <<TRUE, num_corr>>

verifica_corridor_selecionado(a, c) ==
    LET num_corr == SumValues([j \in DOMAIN c |-> Get(a, <<"c", j>>, 0)])
    IN  <<num_corr > 0, num_corr>>

\* Variant: the capacity check left out.
check_global_constraints_sem_capacidade(a, p, c, lb, ub) ==
    LET wave == verifica_tamanho_wave(a, p, lb, ub)
        corr == verifica_corridor_selecionado(a, c)
    IN  IF ~ wave[1]
        THEN [ok |-> FALSE, total |-> wave[2], num_corr |-> 0,
              calls |-> <<"wave">>]
        ELSE IF ~ corr[1]
        THEN [ok |-> FALSE, total |-> wave[2], num_corr |-> corr[2],
              calls |-> <<"wave", "corridor">>]
        ELSE [ok |-> TRUE, total |-> wave[2], num_corr |-> corr[2],
              calls |-> <<"wave", "corridor">>]

\* Variant: the corridors counted before the capacity check, and the count
\* returned when it fails.
check_global_constraints_contagem(a, p, c, lb, ub) ==
    LET wave == verifica_tamanho_wave(a, p, lb, ub)
        corr == verifica_corridor_selecionado(a, c)
    IN  IF ~ wave[1]
        THEN [ok |-> FALSE, total |-> wave[2], num_corr |-> 0,
              calls |-> <<"wave">>]
        ELSE IF ~ verifica_capacidade(a, p, c)
        THEN [ok |-> FALSE, total |-> wave[2], num_corr |-> corr[2],
              calls |-> <<"wave", "capacidade">>]
        ELSE IF ~ corr[1]
        THEN [ok |-> FALSE, total |-> wave[2], num_corr |-> corr[2],
              calls |-> <<"wave", "capacidade", "corridor">>]
        ELSE [ok |-> TRUE, total |-> wave[2], num_corr |-> corr[2],
              calls |-> <<"wave", "capacidade", "corridor">>]

\* The returned triple (ok, total_unidades, num_corr); calls lists the checks
\* the call went through, in order.
check_global_constraints(a, p, c, lb, ub) ==
    LET wave == verifica_tamanho_wave(a, p, lb, ub)
        corr == verifica_corridor_selecionado(a, c)
    IN  IF ~ wave[1]
        THEN [ok |-> FALSE, total |-> wave[2], num_corr |-> 0,
              calls |-> <<"wave">>]
        ELSE IF ~ verifica_capacidade(a, p, c)
        THEN [ok |-> FALSE, total |-> wave[2], num_corr |-> 0,
              calls |-> <<"wave", "capacidade">>]
        ELSE IF ~ corr[1]
        THEN [ok |-> FALSE, total |-> wave[2], num_corr |-> corr[2],
              calls |-> <<"wave", "capacidade", "corridor">>]
        ELSE [ok |-> TRUE, total |-> wave[2], num_corr |-> corr[2],
              calls |-> <<"wave", "capacidade", "corridor">>]

calcular_valor_objetivo(total_unidades, num_corr) ==
    IF num_corr > 0 THEN <<total_unidades, num_corr>> ELSE <<0, 1>>

\* Variant: a binary constraint that rejects two selected neighbours.
dummy_constraint_poda(A, a, B, b) == ~ (a = 1 /\ b = 1)

dummy_constraint(A, a, B, b) == TRUE

-----------------------------------------------------------------------------
(* PedidosCSP and the methods of its base class that all_solutions calls *)

PedidosCSP(variaveis, dominios, neighbors, p, c, lb, ub) ==
    [variables |-> variaveis, domains |-> dominios, neighbors |-> neighbors,
     pedidos |-> p, corredores |-> c, LB |-> lb, UB |-> ub]

goal_test(self, state) ==
    IF Cardinality(DOMAIN state) # Len(self.variables) THEN FALSE
    ELSE check_global_constraints(state, self.pedidos, self.corredores,
                                  self.LB, self.UB).ok

choices(self, var) == self.domains[var]

nconflicts(self, var, val, a) ==
    Cardinality({i \in DOMAIN self.neighbors[var] :
                    /\ self.neighbors[var][i] \in DOMAIN a
                    /\ ~ dummy_constraint(var, val, self.neighbors[var][i],
                                          a[self.neighbors[var][i]])})

assign(var, val, a) == [v \in DOMAIN a \cup {var} |-> IF v = var THEN val ELSE a[v]]

unassign(var, a) == [v \in DOMAIN a \ {var} |-> a[v]]


-----------------------------------------------------------------------------
(* Exact fractions and Python's max *)

FracGT(x, y) == x[1] * y[2] > y[1] * x[2]

FracEQ(x, y) == x[1] * y[2] = y[1] * x[2]

\* Variant: the scan also replaces its maximum by an equal key, so the last
\* maximum wins.
py_max_ultimo(keys) ==
    CHOOSE m \in 1..Len(keys) :
        /\ \A i \in 1..Len(keys) : ~ FracGT(keys[i], keys[m])
        /\ \A i \in (m + 1)..Len(keys) : FracGT(keys[m], keys[i])

\* max(keys) of a non-empty list, as an index: the built-in scans from the left
\* and replaces its current maximum only by a strictly greater key, so it ends
\* on the first index no key exceeds.
py_max(keys) ==
    CHOOSE m \in 1..Len(keys) :
        /\ \A i \in 1..Len(keys) : ~ FracGT(keys[i], keys[m])
        /\ \A i \in 1..(m - 1) : FracGT(keys[m], keys[i])

-----------------------------------------------------------------------------
(* all_solutions, one step of the recursive generator per action *)

Complete(self, a) == Cardinality(DOMAIN a) = Len(self.variables)

\* Variant: the last unassigned variable instead of the first.
next_var_ultimo(self, a) ==
    LET rest == SelectSeq(self.variables, LAMBDA v : v \notin DOMAIN a)
    IN  IF rest = <<>> THEN None ELSE rest[Len(rest)]

next_var(self, a) == first(SelectSeq(self.variables, LAMBDA v : v \notin DOMAIN a))

\* The for loop over csp.choices(var) from index i on: the index of the first
\* value with nconflicts = 0, or 0 when the loop runs out.
RECURSIVE next_value(_, _, _, _)
next_value(self, var, i, a) ==
    IF i > Len(choices(self, var)) THEN 0
    ELSE IF nconflicts(self, var, choices(self, var)[i], a) = 0 THEN i
    ELSE next_value(self, var, i + 1, a)

Exhausted == status = "ret" /\ stack = <<>>

Searching == pc \in {"main", "sens"}

mainVars == <<pedidos, corredores, LB, UB, pc, csp, solucao_list, resultados,
              best, k, report, msg, zero_guard>>

\* An invocation with an incomplete assignment picks its variable and enters
\* the loop: the first admissible value is assigned and the recursion entered.
Descend ==
    /\ Searching /\ status = "call"
    /\ ~ Complete(csp, assignment)
    /\ LET var == next_var(csp, assignment)
           j   == next_value(csp, var, 1, assignment)
       IN  IF j > 0
           THEN /\ stack' = Append(stack, [var |-> var, i |-> j])
                /\ assignment' = assign(var, choices(csp, var)[j], assignment)
                /\ status' = "call"
           ELSE /\ stack' = stack
                /\ assignment' = assignment
                /\ status' = "ret"
    /\ UNCHANGED <<mainVars, out, tested, last_check>>

\* An invocation with a complete assignment: goal_test, yield a copy, return.
Leaf ==
    /\ Searching /\ status = "call"
    /\ Complete(csp, assignment)
    /\ tested' = Append(tested, assignment)
    /\ last_check' = <<assignment, csp.LB, csp.UB,
                        check_global_constraints(assignment, csp.pedidos,
                                  csp.corredores, csp.LB, csp.UB)>>
    /\ out' = IF goal_test(csp, assignment) THEN Append(out, assignment) ELSE out
    /\ status' = "ret"
    /\ UNCHANGED <<mainVars, assignment, stack>>

\* The recursive call returned: unassign, then the next loop iteration (assign
\* the next admissible value and recurse) or, the loop being over, return.
Backtrack ==
    /\ Searching /\ status = "ret"
    /\ stack # <<>>
    /\ LET top == stack[Len(stack)]
           a1  == unassign(top.var, assignment)
           j   == next_value(csp, top.var, top.i + 1, a1)
       IN  IF j > 0
           THEN /\ stack' = [stack EXCEPT ![Len(stack)].i = j]
                /\ assignment' = assign(top.var, choices(csp, top.var)[j], a1)
                /\ status' = "call"
           ELSE /\ stack' = SubSeq(stack, 1, Len(stack) - 1)
                /\ assignment' = a1
                /\ status' = "ret"
    /\ UNCHANGED <<mainVars, out, tested, last_check>>

-----------------------------------------------------------------------------
(* main *)

SensPairs == <<<<5, 12>>, <<6, 15>>, <<4, 10>>>>

NoSolutionMsg == "Nenhuma solucao viavel encontrada!"

NewCSP(lb, ub) ==
    PedidosCSP(criar_variaveis(pedidos, corredores),
               criar_dominios(pedidos, corredores),
               criar_neighbors(criar_variaveis(pedidos, corredores)),
               pedidos, corredores, lb, ub)

\* list(all_solutions(csp)) starts: a fresh generator with an empty assignment.
StartSearch(lb, ub) ==
    /\ csp' = NewCSP(lb, ub)
    /\ assignment' = <<>>
    /\ stack' = <<>>
    /\ status' = "call"
    /\ out' = <<>>
    /\ tested' = <<>>

result_tuple(sol) ==
    LET total_unidades == verifica_tamanho_wave(sol, pedidos, LB, UB)[2]
        num_corr == verifica_corridor_selecionado(sol, corredores)[2]
    IN  <<sol, total_unidades, num_corr,
          calcular_valor_objetivo(total_unidades, num_corr)>>

\* The generator of main's search is exhausted: the empty check, the result
\* tuples, the best one, and the first iteration of the sensitivity loop up to
\* its call of all_solutions.
MainRank ==
    /\ pc = "main" /\ Exhausted
    /\ solucao_list' = out
    /\ IF out = <<>>
       THEN /\ msg' = <<NoSolutionMsg>>
            /\ pc' = "done"
            /\ UNCHANGED <<resultados, best, k, zero_guard, csp, assignment,
                           stack, status, out, tested>>
       ELSE /\ resultados' = [i \in 1..Len(out) |-> result_tuple(out[i])]
            /\ best' = resultados'[py_max([i \in 1..Len(out) |-> resultados'[i][4]])]
            /\ zero_guard' = zero_guard
                  + Cardinality({i \in 1..Len(out) : resultados'[i][3] <= 0})
            /\ k' = 1
            /\ pc' = "sens"
            /\ StartSearch(SensPairs[1][1], SensPairs[1][2])
            /\ UNCHANGED msg
    /\ UNCHANGED <<pedidos, corredores, LB, UB, last_check, report>>

sens_objs(sols, lb, ub) ==
    [i \in 1..Len(sols) |->
        LET r == check_global_constraints(sols[i], pedidos, corredores, lb, ub)
        IN  calcular_valor_objetivo(r.total, r.num_corr)]

\* The generator of a sensitivity iteration is exhausted: best_obj of this
\* pair, then the next iteration or the end of main.
SensStep ==
    /\ pc = "sens" /\ Exhausted
    /\ \E objs \in {sens_objs(out, csp.LB, csp.UB)} :
          /\ report' = Append(report, IF out # <<>> THEN objs[py_max(objs)]
                                                    ELSE None)
          /\ zero_guard' = zero_guard
                + Cardinality({i \in 1..Len(out) :
                     check_global_constraints(out[i], pedidos, corredores,
                                              csp.LB, csp.UB).num_corr <= 0})
    /\ IF k < Len(SensPairs)
       THEN /\ k' = k + 1
            /\ StartSearch(SensPairs[k + 1][1], SensPairs[k + 1][2])
            /\ pc' = "sens"
       ELSE /\ pc' = "done"
            /\ UNCHANGED <<k, csp, assignment, stack, status, out, tested>>
    /\ UNCHANGED <<pedidos, corredores, LB, UB, last_check, solucao_list,
                   resultados, best, msg>>

Next == Descend \/ Leaf \/ Backtrack \/ MainRank \/ SensStep

-----------------------------------------------------------------------------
(* Initial states *)

PedidoMenu == { (0 :> 2), (0 :> 1) @@ (1 :> 2) }

CorredorMenu == { (0 :> 1) @@ (2 :> 1), (0 :> 2) @@ (1 :> 2) }

Bands == { <<0, 0>>, <<0, 3>>, <<3, 6>>, <<7, 10>> }

InitMain ==
    /\ pc = "main"
    /\ csp = NewCSP(LB, UB)
    /\ assignment = <<>>
    /\ stack = <<>>
    /\ status = "call"
    /\ out = <<>>
    /\ tested = <<>>
    /\ last_check = None
    /\ solucao_list = <<>>
    /\ resultados = <<>>
    /\ best = None
    /\ k = 0
    /\ report = <<>>
    /\ msg = None
    /\ zero_guard = 0

\* Any small instance: orders and corridors drawn from the menus, any band.
Init ==
    /\ pedidos \in [0..(NumPedidos - 1) -> PedidoMenu]
    /\ corredores \in [0..(NumCorredores - 1) -> CorredorMenu]
    /\ \E b \in Bands : LB = b[1] /\ UB = b[2]
    /\ InitMain

Spec == Init /\ [][Next]_vars

-----------------------------------------------------------------------------
(* all_solutions as the list it produces, and main in whole steps *)

\* list(all_solutions(csp, a)): what the invocation entered with assignment a
\* yields, in order. The working assignment is the same dict at every level;
\* each level leaves it as it found it, so the loop's next iteration starts
\* from unassign(var, assign(var, value, a)).
RECURSIVE all_solutions(_, _), try_values(_, _, _, _)
all_solutions(self, a) ==
    IF Complete(self, a)
    THEN IF goal_test(self, a) THEN <<a>> ELSE <<>>
    ELSE try_values(self, next_var(self, a), 1, a)

try_values(self, var, i, a) ==
    IF i > Len(choices(self, var)) THEN <<>>
    ELSE IF nconflicts(self, var, choices(self, var)[i], a) = 0
    THEN all_solutions(self, assign(var, choices(self, var)[i], a))
            \o try_values(self, var, i + 1,
                          unassign(var, assign(var, choices(self, var)[i], a)))
    ELSE try_values(self, var, i + 1, a)

\* The generator stepped action by action has produced the list all_solutions
\* gives.
StepwiseAgrees == (Searching /\ Exhausted) => out = all_solutions(csp, <<>>)

\* main from its start to the selection of the best tuple, the searching done
\* in one step.
MainRun ==
    /\ pc = "main" /\ k = 0
    /\ solucao_list' = all_solutions(NewCSP(LB, UB), <<>>)
    /\ IF solucao_list' = <<>>
       THEN /\ msg' = <<NoSolutionMsg>>
            /\ pc' = "done"
            /\ UNCHANGED <<resultados, best, k, zero_guard>>
       ELSE /\ resultados' = [i \in 1..Len(solucao_list') |->
                                 result_tuple(solucao_list'[i])]
            /\ best' = resultados'[py_max([i \in 1..Len(resultados') |->
                                              resultados'[i][4]])]
            /\ zero_guard' = zero_guard
                  + Cardinality({i \in 1..Len(resultados') : resultados'[i][3] <= 0})
            /\ k' = 1
            /\ pc' = "sens"
            /\ UNCHANGED msg
    /\ UNCHANGED <<pedidos, corredores, LB, UB, csp, assignment, stack, status,
                   out, tested, last_check, report>>

\* One iteration of the sensitivity loop, its search done in one step.
SensRun ==
    /\ pc = "sens" /\ k \in DOMAIN SensPairs
    /\ \E sols \in {all_solutions(NewCSP(SensPairs[k][1], SensPairs[k][2]), <<>>)} :
       \E objs \in {sens_objs(sols, SensPairs[k][1], SensPairs[k][2])} :
          /\ report' = Append(report, IF sols # <<>> THEN objs[py_max(objs)]
                                                     ELSE None)
          /\ zero_guard' = zero_guard
                + Cardinality({i \in 1..Len(sols) :
                     check_global_constraints(sols[i], pedidos, corredores,
                         SensPairs[k][1], SensPairs[k][2]).num_corr <= 0})
    /\ IF k < Len(SensPairs)
       THEN k' = k + 1 /\ pc' = "sens"
       ELSE k' = k /\ pc' = "done"
    /\ UNCHANGED <<pedidos, corredores, LB, UB, csp, assignment, stack, status,
                   out, tested, last_check, solucao_list, resultados, best, msg>>

NextDados == MainRun \/ SensRun

\* The bands tried on the data set: those of main.py and of its sensitivity
\* loop, their neighbours, and one above every total.
BandasDados == ((4..8) \X (10..15)) \cup {<<16, 20>>}

\* The data set of main.py.
InitDados ==
    /\ pedidos = [o \in 0..4 |->
          CASE o = 0 -> (0 :> 3) @@ (2 :> 1)
            [] o = 1 -> (1 :> 1) @@ (3 :> 1)
            [] o = 2 -> (2 :> 1) @@ (4 :> 2)
            [] o = 3 -> (0 :> 1) @@ (2 :> 2) @@ (3 :> 1) @@ (4 :> 1)
            [] o = 4 -> (1 :> 1)]
    /\ corredores = [c \in 0..4 |->
          CASE c = 0 -> (0 :> 2) @@ (1 :> 1) @@ (2 :> 1) @@ (4 :> 1)
            [] c = 1 -> (0 :> 2) @@ (1 :> 1) @@ (2 :> 2) @@ (4 :> 1)
            [] c = 2 -> (1 :> 2) @@ (3 :> 1) @@ (4 :> 2)
            [] c = 3 -> (0 :> 2) @@ (1 :> 1) @@ (3 :> 1) @@ (4 :> 1)
            [] c = 4 -> (1 :> 1) @@ (2 :> 2) @@ (3 :> 1) @@ (4 :> 2)]
    /\ \E b \in BandasDados : LB = b[1] /\ UB = b[2]
    /\ InitMain

SpecDados == InitDados /\ [][NextDados]_vars

-----------------------------------------------------------------------------
(* The constraints restated on their own, by counting units *)

NVars == Cardinality(DOMAIN pedidos) + Cardinality(DOMAIN corredores)

AllComplete ==
    [{<<"o", o>> : o \in DOMAIN pedidos} \cup {<<"c", c>> : c \in DOMAIN corredores}
        -> {0, 1}]

IsComplete(a) == a \in AllComplete

SelO(a) == {o \in DOMAIN pedidos : a[<<"o", o>>] = 1}

SelC(a) == {c \in DOMAIN corredores : a[<<"c", c>>] = 1}

\* One element per unit of item that the dicts d[x], x in S, hold.
Units(d, S, item) ==
    UNION {{<<x, u>> : u \in 1..d[x][item]} : x \in {y \in S : item \in DOMAIN d[y]}}

AllItems == UNION {DOMAIN pedidos[o] : o \in DOMAIN pedidos}
               \cup UNION {DOMAIN corredores[c] : c \in DOMAIN corredores}

Total(a) ==
    Cardinality(UNION {{<<i, e>> : e \in Units(pedidos, SelO(a), i)} : i \in AllItems})

MaxTotal ==
    Cardinality(UNION {{<<i, e>> : e \in Units(pedidos, DOMAIN pedidos, i)} :
                          i \in AllItems})

NumC(a) == Cardinality(SelC(a))

BandOK(a, lb, ub) == lb <= Total(a) /\ Total(a) <= ub

CapOK(a) ==
    \A o \in DOMAIN pedidos : \A i \in DOMAIN pedidos[o] :
        Cardinality(Units(pedidos, SelO(a), i))
            <= Cardinality(Units(corredores, SelC(a), i))

ActOK(a) == \E c \in DOMAIN corredores : a[<<"c", c>>] = 1

Feasible(a, lb, ub) == BandOK(a, lb, ub) /\ CapOK(a) /\ ActOK(a)

Elems(seq) == {seq[i] : i \in DOMAIN seq}

\* a before b in the lexicographic order over the variable order, 0 < 1.
LexLess(a, b) ==
    \E i \in DOMAIN csp.variables :
        /\ a[csp.variables[i]] < b[csp.variables[i]]
        /\ \A j \in 1..(i - 1) : a[csp.variables[j]] = b[csp.variables[j]]

-----------------------------------------------------------------------------
(* Claims *)

\* C1 (soundness): every assignment all_solutions yields is complete, one 0/1
\* value per variable, and satisfies band, capacity and activity as restated
\* above, for the bounds of the CSP being searched: the newest one at every
\* step, and all of them once the search is exhausted.
C1_Soundness ==
    Searching =>
        /\ out # <<>> =>
              /\ IsComplete(out[Len(out)])
              /\ Feasible(out[Len(out)], csp.LB, csp.UB)
        /\ Exhausted =>
              \A i \in DOMAIN out :
                  IsComplete(out[i]) /\ Feasible(out[i], csp.LB, csp.UB)

\* A search that has yielded assignments and rejected others.
C1_Witness ==
    /\ pc = "main" /\ Len(out) >= 2
    /\ \E i \in DOMAIN tested : ~ Feasible(tested[i], csp.LB, csp.UB)

\* C2 (completeness): when a search is exhausted, the yielded assignments are
\* exactly the complete 0/1 assignments that pass band, capacity and activity.
C2_Completeness ==
    (Searching /\ Exhausted) =>
        Elems(out) = {a \in AllComplete : Feasible(a, csp.LB, csp.UB)}

\* An exhausted search with some, but not all, assignments feasible.
C2_Witness ==
    /\ Searching /\ Exhausted
    /\ Len(out) >= 1 /\ Len(out) < 2 ^ NVars

\* C3 (data set of main.py, LB = 5, UB = 12): main finds a feasible assignment
\* of total within [5, 12], the best objective is exactly 5, and no feasible
\* assignment at all has an objective above 5.
C3_DatasetOptimum ==
    (LB = 5 /\ UB = 12 /\ pc # "main") =>
        /\ msg = None
        /\ \E i \in DOMAIN resultados :
              5 <= resultados[i][2] /\ resultados[i][2] <= 12
        /\ best # None /\ FracEQ(best[4], <<5, 1>>)
        /\ \A i \in DOMAIN resultados : ~ FracGT(resultados[i][4], <<5, 1>>)
        /\ \A a \in AllComplete : Feasible(a, LB, UB) => Total(a) <= 5 * NumC(a)
        /\ \E a \in AllComplete : Feasible(a, LB, UB) /\ Total(a) = 5 * NumC(a)

\* main has ranked the data set's feasible assignments under [5, 12] and ended.
C3_Witness ==
    /\ LB = 5 /\ UB = 12 /\ pc = "done"
    /\ best # None /\ Len(resultados) >= 1

C5_EmptyResult ==
    /\ (Searching /\ csp.LB > MaxTotal) => out = <<>>
    /\ LB > MaxTotal =>
          /\ pc # "sens"
          /\ resultados = <<>> /\ best = None /\ report = <<>>
          /\ pc = "done" => msg = <<NoSolutionMsg>>
    /\ \A i \in DOMAIN report : SensPairs[i][1] > MaxTotal => report[i] = None
    /\ msg # None => (pc = "done" /\ solucao_list = <<>>)
    /\ zero_guard = 0

\* main ended on the no-solution message with LB above every achievable total.
C5_Witness == pc = "done" /\ LB > MaxTotal /\ msg = <<NoSolutionMsg>>

\* C6 (degenerate band): with LB = UB = 0 an exhausted search has yielded
\* exactly the assignments with no order and at least one corridor, 2^m - 1 of
\* them, each of total 0, and the capacity check accepts each of them.
C6_DegenerateBand ==
    (Searching /\ Exhausted /\ csp.LB = 0 /\ csp.UB = 0) =>
        /\ Elems(out) = {a \in AllComplete : SelO(a) = {} /\ SelC(a) # {}}
        /\ Len(out) = 2 ^ Cardinality(DOMAIN corredores) - 1
        /\ \A i \in DOMAIN out : Total(out[i]) = 0
        /\ \A a \in AllComplete :
              (SelO(a) = {} /\ SelC(a) # {}) =>
                  verifica_capacidade(a, pedidos, corredores)

\* An exhausted search under the band [0, 0] that yielded assignments.
C6_Witness ==
    /\ Searching /\ Exhausted /\ csp.LB = 0 /\ csp.UB = 0
    /\ Len(out) >= 1 /\ Len(tested) = 2 ^ NVars

\* C7 (tie-break): the best tuple has the maximum objective over the yielded
\* assignments, and every assignment yielded before it has a strictly smaller
\* objective.
C7_TieBreak ==
    (pc = "done" /\ best # None) =>
        \E b \in DOMAIN solucao_list :
            /\ best = resultados[b] /\ best[1] = solucao_list[b]
            /\ \A i \in DOMAIN solucao_list :
                  ~ FracGT(<<Total(solucao_list[i]), NumC(solucao_list[i])>>,
                           <<Total(best[1]), NumC(best[1])>>)
            /\ \A i \in 1..(b - 1) :
                  FracGT(<<Total(best[1]), NumC(best[1])>>,
                         <<Total(solucao_list[i]), NumC(solucao_list[i])>>)

\* A best tuple whose objective a later tuple ties.
C7_Witness ==
    /\ pc = "done" /\ best # None
    /\ \E b, i \in DOMAIN resultados :
          /\ best = resultados[b] /\ b < i
          /\ FracEQ(resultados[i][4], best[4])

\* C8 (combinator): on the complete assignment goal_test has just handed it,
\* check_global_constraints returns ok iff band, capacity and activity hold,
\* always the real total, the count 0 when band or capacity fails and the real
\* corridor count otherwise; it calls the capacity check only after the band
\* passed and the activity check only after the capacity passed.
C8_Combinator ==
    (Searching /\ status = "ret" /\ Complete(csp, assignment)) =>
        LET a == last_check[1]
            r == last_check[4]
            band == BandOK(a, last_check[2], last_check[3])
        IN  /\ IsComplete(a) /\ a = assignment
            /\ last_check[2] = csp.LB /\ last_check[3] = csp.UB
            /\ r.ok = (band /\ CapOK(a) /\ ActOK(a))
            /\ r.total = Total(a)
            /\ r.num_corr = (IF band /\ CapOK(a) THEN NumC(a) ELSE 0)
            /\ r.calls = (IF ~ band THEN <<"wave">>
                          ELSE IF ~ CapOK(a) THEN <<"wave", "capacidade">>
                          ELSE <<"wave", "capacidade", "corridor">>)

\* A call that failed on capacity with corridors selected and reported 0.
C8_Witness ==
    /\ Searching /\ status = "ret" /\ Complete(csp, assignment)
    /\ BandOK(last_check[1], last_check[2], last_check[3])
    /\ ~ CapOK(last_check[1])
    /\ NumC(last_check[1]) >= 1
    /\ last_check[4].num_corr = 0

\* C9 (enumeration order): the bound variables are always the first ones of
\* the order o0.., c0.., bound in that order; each complete assignment tested
\* and each one yielded is lexicographically greater than the one before it,
\* and the list an exhausted search has yielded is strictly increasing and
\* without repetition.
C9_LexOrder ==
    Searching =>
        /\ DOMAIN assignment = {csp.variables[i] : i \in 1..Len(stack)}
        /\ \A d \in DOMAIN stack : stack[d].var = csp.variables[d]
        /\ Len(tested) >= 2 =>
              LexLess(tested[Len(tested) - 1], tested[Len(tested)])
        /\ Len(out) >= 2 => LexLess(out[Len(out) - 1], out[Len(out)])
        /\ Exhausted =>
              /\ \A i \in 1..(Len(out) - 1) : LexLess(out[i], out[i + 1])
              /\ \A i, j \in DOMAIN out : i # j => out[i] # out[j]

\* Three assignments have been yielded in the middle of a search.
C9_Witness == Searching /\ Len(out) >= 3 /\ ~ Exhausted

\* C10 (exhaustive search): the working assignment never holds more than n+m
\* bindings nor the recursion more than n+m levels, and an exhausted search
\* has handed goal_test 2^(n+m) states, which are all the 2^(n+m) complete
\* assignments, each therefore once, and left the working assignment empty.
C10_Inv ==
    Searching =>
        /\ Cardinality(DOMAIN assignment) <= NVars
        /\ Len(stack) <= NVars
        /\ Len(tested) <= 2 ^ NVars
        /\ Exhausted =>
              /\ Len(tested) = 2 ^ NVars
              /\ Elems(tested) = AllComplete
              /\ assignment = <<>>

\* The steps a search takes below an invocation with h unbound variables when
\* nothing is pruned: one for a leaf, and for an inner node the two subtrees,
\* the entry into the loop and the two returns.
TreeSteps(h) == 2 ^ (h + 2) - 3

\* The steps the running search has taken, read off its recursion stack.
RECURSIVE StepsTaken(_)
StepsTaken(d) ==
    IF d = 0 THEN IF status = "ret" THEN TreeSteps(NVars - Len(stack)) ELSE 0
    ELSE StepsTaken(d - 1) + 1
            + (IF stack[d].i = 2 THEN TreeSteps(NVars - d) + 1 ELSE 0)

\* A bound on the steps main still has to take.
Rank ==
    IF pc = "done" THEN 0
    ELSE (Len(SensPairs) - k) * (TreeSteps(NVars) + 1)
            + (TreeSteps(NVars) - StepsTaken(Len(stack))) + 1

\* C10 (termination): the above always holds, every step strictly lowers the
\* natural number Rank, and a step is possible until main has ended: every
\* run of main, each of its searches included, comes to its end.
C10_Exhaustive ==
    /\ []C10_Inv
    /\ [](Rank \in Nat)
    /\ [][Rank' < Rank]_vars
    /\ [](pc # "done" => ENABLED Next)

\* A search has ended after testing every complete assignment.
C10_Witness ==
    /\ Searching /\ Exhausted
    /\ Len(tested) = 2 ^ NVars /\ assignment = <<>>

=============================================================================
